---------------------------- MODULE Spec2Model ----------------------------
(***************************************************************************)
(* The fetch / solve / submit / classify retry loop of VTUScraper          *)
(* (services/mainclass.py): the __main__ loop and VTUScraper.run, one      *)
(* action per blocking step of run().  The transport, the HTML of the      *)
(* index page, the CAPTCHA bytes and the OCR output are inputs, chosen     *)
(* with \E.  `log' is the history of HTTP exchanges (what a scripted       *)
(* transport would have recorded): log[a] lists those of attempt a, in the *)
(* order they were made.                                                   *)
(***************************************************************************)
EXTENDS Naturals, Sequences, FiniteSets

\* the retry budget of the __main__ block
MAX_RETRY == 5

\* how many distinct response bodies the server can answer a POST with
NBodies == 2

\* the literal the __main__ loop looks for
MARKER == "Invalid captcha code !!!"

VARIABLES
    attempt,              \* __main__: attempt
    result,               \* __main__: result
    pc,                   \* position of the single thread of control
    self_cookies,         \* VTUScraper.cookies
    self_result_payload,  \* VTUScraper.result_payload
    session,              \* run(): session (its cookie jar)
    html,                 \* run(): html of the index page
    token_value,          \* run(): token_value
    captcha_text,         \* run(): captcha_text
    raw_img,              \* run(): raw_img
    log,                  \* history of the HTTP exchanges
    img,                  \* clean_captcha(): img, a grid of RGB pixels
    gray,                 \* clean_captcha(): gray
    arr,                  \* clean_captcha(): arr
    mask,                 \* clean_captcha(): mask
    out_mask,             \* clean_captcha(): out_mask
    result_arr,           \* clean_captcha(): result_arr
    cpc,                  \* position in clean_captcha()
    text,                 \* run_ocr(): text, the output of the model
    cap_text,             \* run_ocr(): cap_text
    opc,                  \* position in run_ocr() and its callers
    ocr_raw,              \* process_file(): ocr_raw
    ocr_clean,            \* process_file(): ocr_clean
    thr                   \* the locals of concurrent calls of run()

\* the __main__ loop and the run() call it makes
vars == <<attempt, result, pc, self_cookies, self_result_payload, session,
          html, token_value, captcha_text, raw_img, log>>

\* a call of clean_captcha
cleanVars == <<img, gray, arr, mask, out_mask, result_arr, cpc>>

\* the text handling of run_ocr
ocrVars == <<text, cap_text, opc, ocr_raw, ocr_clean>>

\* everything
allVars == <<vars, cleanVars, ocrVars, thr>>

-----------------------------------------------------------------------------
(* Python values *)

\* Python's None, and a local of run() that is not bound
None == [none |-> TRUE]

\* a str: `text' names what it is, `marker' says whether MARKER is a
\* substring of it, `body' tells the server's response bodies apart
Str(t, m, b) == [py |-> "str", text |-> t, marker |-> m, body |-> b]

\* result = ""
EmptyStr == Str("", FALSE, 0)

\* return "TOKEN NOT FOUND"
TokenNotFound == Str("TOKEN NOT FOUND", FALSE, 0)

\* r.text of the submission response
ResponseText(b, m) == Str("r.text", m, b)

\* {"error": str(e)}: `text' names the call that raised, `marker' says
\* whether MARKER is a substring of the message str(e)
ErrorDict(src, m) == [py |-> "dict", text |-> src, marker |-> m, body |-> 0]

\* the keys of the dict run() returns from its except clause
DictKeys(r) == {"error"}

\* a mis-written membership test that looks into the dict's message
ContainsInValues(r) == r.marker

\* "Invalid captcha code !!!" in result: a substring test on a str, a key
\* test on a dict
Contains(r) == IF r.py = "str" THEN r.marker ELSE MARKER \in DictKeys(r)

-----------------------------------------------------------------------------
(* The history of HTTP exchanges *)

\* the index GETs, CAPTCHA GETs or POSTs of attempt a (their places in log[a])
RequestsOf(a, kind) == {i \in 1..Len(log[a]) : log[a][i].req = kind}

\* the index GETs, CAPTCHA GETs or POSTs made in attempts 1..n
RequestsUpTo(n, kind) ==
    UNION {{<<a, i>> : i \in RequestsOf(a, kind)} : a \in 1..n}

\* the index GETs, CAPTCHA GETs or POSTs made so far
Requests(kind) == RequestsUpTo(Len(log), kind)

\* the ordinal of the index fetch being made: the server hands out a fresh
\* token and fresh cookies with every index page
FetchId == Cardinality(Requests("GET index")) + 1

\* the request e is made in the current attempt
Record(e) == log' = [log EXCEPT ![attempt] = Append(@, e)]

\* no call of clean_captcha is being looked at
CleanIdle ==
    /\ img = None
    /\ gray = None
    /\ arr = None
    /\ mask = None
    /\ out_mask = None
    /\ result_arr = None
    /\ cpc = "idle"

\* no text handling of run_ocr is being looked at
OcrIdle ==
    /\ text = None
    /\ cap_text = None
    /\ ocr_raw = None
    /\ ocr_clean = None
    /\ opc = "idle"

\* a step of the __main__ loop leaves the rest alone
RetryOnly == UNCHANGED <<cleanVars, ocrVars, thr>>

-----------------------------------------------------------------------------
Init ==
    /\ CleanIdle
    /\ OcrIdle
    /\ thr = <<>>
    /\ attempt = 0
    /\ result = EmptyStr
    /\ pc = "loop"
    /\ self_cookies = None
    /\ self_result_payload = None
    /\ session = None
    /\ html = None
    /\ token_value = None
    /\ captcha_text = None
    /\ raw_img = None
    /\ log = <<>>

\* run() returns v and __main__ assigns it to result; the locals of run() die
Return(v) ==
    /\ result' = v
    /\ pc' = "classify"
    /\ session' = None
    /\ html' = None
    /\ token_value' = None
    /\ captcha_text' = None
    /\ raw_img' = None

\* a guard that lets one attempt too many through
LoopGuardOffByOne == attempt <= MAX_RETRY

\* while attempt < MAX_RETRY
LoopGuard == attempt < MAX_RETRY

\* while ...: attempt += 1; result = scraper.run("") is entered:
\* session = requests.Session()
LoopEnter ==
    /\ pc = "loop"
    /\ RetryOnly
    /\ LoopGuard
    /\ attempt' = attempt + 1
    /\ session' = [fetch |-> 0, jar |-> {}]
    /\ log' = Append(log, <<>>)
    /\ pc' = "get_index"
    /\ UNCHANGED <<result, self_cookies, self_result_payload, html,
                   token_value, captcha_text, raw_img>>

\* the while condition is false: fall through to print(result)
LoopExit ==
    /\ pc = "loop"
    /\ RetryOnly
    /\ ~LoopGuard
    /\ pc' = "done"
    /\ UNCHANGED <<attempt, result, self_cookies, self_result_payload,
                   session, html, token_value, captcha_text, raw_img, log>>


\* what the index page can look like to soup.find and re.search
Pages == [hasToken : BOOLEAN, hasCaptcha : BOOLEAN]

\* what run_ocr(img).strip() can be: nothing, or some recognised text
OcrTexts == {"", "OCR"}

\* r = session.get(self.index_url, ...); html = r.text
\* (r.status_code is printed and not looked at)
GetIndex ==
    /\ pc = "get_index"
    /\ RetryOnly
    /\ \/ \E page \in Pages :
            /\ html' = [hasToken |-> page.hasToken,
                        hasCaptcha |-> page.hasCaptcha, fetch |-> FetchId]
            /\ session' = [fetch |-> FetchId, jar |-> {"index"}]
            /\ Record([req |-> "GET index", ok |-> TRUE, page |-> page])
            /\ pc' = "extract"
            /\ UNCHANGED <<result, token_value, captcha_text, raw_img>>
       \/ \E m \in BOOLEAN :
            /\ Record([req |-> "GET index", ok |-> FALSE])
            /\ Return(ErrorDict("session.get(index_url)", m))
    /\ UNCHANGED <<attempt, self_cookies, self_result_payload>>

\* a version that prints "Token NOT FOUND" and forgets to return
ExtractTokenNoReturn ==
    /\ pc = "extract"
    /\ RetryOnly
    /\ token_value' = [fetch |-> html.fetch]
    /\ pc' = "find_captcha"
    /\ UNCHANGED <<attempt, result, self_cookies, self_result_payload,
                   session, html, captcha_text, raw_img, log>>

\* token_tag = soup.find("input", {"name": "Token"});
\* if not token_tag: return "TOKEN NOT FOUND"; token_value = token_tag.get("value")
ExtractToken ==
    /\ pc = "extract"
    /\ RetryOnly
    /\ IF ~html.hasToken
       THEN /\ Return(TokenNotFound)
            /\ UNCHANGED <<attempt, self_cookies, self_result_payload, log>>
       ELSE /\ token_value' = [fetch |-> html.fetch]
            /\ pc' = "find_captcha"
            /\ UNCHANGED <<attempt, result, self_cookies,
                           self_result_payload, session, html, captcha_text,
                           raw_img, log>>

\* a version that gives up when the page names no CAPTCHA image
FindCaptchaOrFail ==
    /\ pc = "find_captcha"
    /\ RetryOnly
    /\ IF html.hasCaptcha
       THEN /\ captcha_text' = [fetch |-> html.fetch, txt |-> ""]
            /\ pc' = "get_captcha"
            /\ UNCHANGED <<attempt, result, self_cookies,
                           self_result_payload, session, html, token_value,
                           raw_img, log>>
       ELSE /\ Return(Str("CAPTCHA NOT FOUND", FALSE, 0))
            /\ UNCHANGED <<attempt, self_cookies, self_result_payload, log>>

\* a version in which self.cookies is stored before the CAPTCHA is fetched
FindCaptchaStoresCookies ==
    /\ pc = "find_captcha"
    /\ RetryOnly
    /\ captcha_text' = [fetch |-> html.fetch, txt |-> ""]
    /\ self_cookies' = [fetch |-> session.fetch, jar |-> session.jar]
    /\ pc' = IF html.hasCaptcha THEN "get_captcha" ELSE "store_cookies"
    /\ UNCHANGED <<attempt, result, self_result_payload, session, html,
                   token_value, raw_img, log>>

\* captcha_url = None; captcha_text = "";
\* m = re.search(r'src="(/captcha/[^"]+)"', html); if m: ... else: print(...)
FindCaptcha ==
    /\ pc = "find_captcha"
    /\ RetryOnly
    /\ captcha_text' = [fetch |-> html.fetch, txt |-> ""]
    /\ pc' = IF html.hasCaptcha THEN "get_captcha" ELSE "store_cookies"
    /\ UNCHANGED <<attempt, result, self_cookies, self_result_payload,
                   session, html, token_value, raw_img, log>>

\* a version that swallows the transport error of the image GET
GetCaptchaSwallow ==
    /\ pc = "get_captcha"
    /\ RetryOnly
    /\ \/ \E d \in BOOLEAN :
            /\ raw_img' = [fetch |-> session.fetch, decodable |-> d]
            /\ session' = [session EXCEPT !.jar = @ \cup {"captcha"}]
            /\ Record([req |-> "GET captcha", ok |-> TRUE, decodable |-> d])
            /\ pc' = "ocr"
       \/ /\ Record([req |-> "GET captcha", ok |-> FALSE])
          /\ pc' = "store_cookies"
          /\ UNCHANGED <<session, raw_img>>
    /\ UNCHANGED <<attempt, result, self_cookies, self_result_payload, html,
                   token_value, captcha_text>>

\* cap = session.get(captcha_url, ...); raw_img = cap.content
GetCaptcha ==
    /\ pc = "get_captcha"
    /\ RetryOnly
    /\ \/ \E d \in BOOLEAN :
            /\ raw_img' = [fetch |-> session.fetch, decodable |-> d]
            /\ session' = [session EXCEPT !.jar = @ \cup {"captcha"}]
            /\ Record([req |-> "GET captcha", ok |-> TRUE, decodable |-> d])
            /\ pc' = "ocr"
            /\ UNCHANGED <<result, html, token_value, captcha_text>>
       \/ \E m \in BOOLEAN :
            /\ Record([req |-> "GET captcha", ok |-> FALSE])
            /\ Return(ErrorDict("session.get(captcha_url)", m))
    /\ UNCHANGED <<attempt, self_cookies, self_result_payload>>

\* a version that downgrades a decode failure to an empty captcha text
OcrDowngrade ==
    /\ pc = "ocr"
    /\ RetryOnly
    /\ \E t \in OcrTexts :
         captcha_text' = [fetch |-> raw_img.fetch,
                          txt |-> IF raw_img.decodable THEN t ELSE ""]
    /\ pc' = "store_cookies"
    /\ UNCHANGED <<attempt, result, self_cookies, self_result_payload,
                   session, html, token_value, raw_img, log>>

\* img = Image.open(BytesIO(raw_img)); captcha_text = run_ocr(img).strip()
\* bytes that are no image make Image.open (or the load inside run_ocr)
\* raise, and the except clause of run() returns {"error": str(e)}
Ocr ==
    /\ pc = "ocr"
    /\ RetryOnly
    /\ IF ~raw_img.decodable
       THEN /\ Return(ErrorDict("Image.open", FALSE))
            /\ UNCHANGED <<attempt, self_cookies, self_result_payload, log>>
       ELSE /\ \E t \in OcrTexts :
                 captcha_text' = [fetch |-> raw_img.fetch, txt |-> t]
            /\ pc' = "store_cookies"
            /\ UNCHANGED <<attempt, result, self_cookies,
                           self_result_payload, session, html, token_value,
                           raw_img, log>>

\* a version that keeps the cookies of an earlier attempt once it has some
StoreCookiesOnce ==
    /\ pc = "store_cookies"
    /\ RetryOnly
    /\ self_cookies' = IF self_cookies = None
                       THEN [fetch |-> session.fetch, jar |-> session.jar]
                       ELSE self_cookies
    /\ pc' = "store_payload"
    /\ UNCHANGED <<attempt, result, self_result_payload, session, html,
                   token_value, captcha_text, raw_img, log>>

\* self.cookies = session.cookies.get_dict()
StoreCookies ==
    /\ pc = "store_cookies"
    /\ RetryOnly
    /\ self_cookies' = [fetch |-> session.fetch, jar |-> session.jar]
    /\ pc' = "store_payload"
    /\ UNCHANGED <<attempt, result, self_result_payload, session, html,
                   token_value, captcha_text, raw_img, log>>

\* self.result_payload = {"Token": token_value, "lns": lns,
\*                        "captchacode": captcha_text}, with lns = ""
StorePayload ==
    /\ pc = "store_payload"
    /\ RetryOnly
    /\ self_result_payload' = [Token |-> token_value, lns |-> "",
                               captchacode |-> captcha_text]
    /\ pc' = "post"
    /\ UNCHANGED <<attempt, result, self_cookies, session, html,
                   token_value, captcha_text, raw_img, log>>

\* r = requests.post(url=self.result_url, cookies=self.cookies,
\*                   data=self.result_payload, ...); full = r.text; return full
Post ==
    /\ pc = "post"
    /\ RetryOnly
    /\ \/ \E b \in 1..NBodies, m \in BOOLEAN :
            /\ Record([req |-> "POST", ok |-> TRUE, cookies |-> self_cookies,
                      data |-> self_result_payload,
                      body |-> ResponseText(b, m)])
            /\ Return(ResponseText(b, m))
       \/ \E m \in BOOLEAN :
            /\ Record([req |-> "POST", ok |-> FALSE, cookies |-> self_cookies,
                      data |-> self_result_payload])
            /\ Return(ErrorDict("requests.post", m))
    /\ UNCHANGED <<attempt, self_cookies, self_result_payload>>

\* a version whose break is never reached
ClassifyNoBreak ==
    /\ pc = "classify"
    /\ RetryOnly
    /\ pc' = "loop"
    /\ UNCHANGED <<attempt, result, self_cookies, self_result_payload,
                   session, html, token_value, captcha_text, raw_img, log>>

\* if "Invalid captcha code !!!" in result: continue
\* break
Classify ==
    /\ pc = "classify"
    /\ RetryOnly
    /\ pc' = IF Contains(result) THEN "loop" ELSE "done"
    /\ UNCHANGED <<attempt, result, self_cookies, self_result_payload,
                   session, html, token_value, captcha_text, raw_img, log>>

Next ==
    \/ LoopEnter
    \/ LoopExit
    \/ GetIndex
    \/ ExtractToken
    \/ FindCaptcha
    \/ GetCaptcha
    \/ Ocr
    \/ StoreCookies
    \/ StorePayload
    \/ Post
    \/ Classify

Spec == Init /\ [][Next]_allVars

\* every transport call carries timeout=self.timeout, so each step of the
\* single thread of control comes to an end and the next one is taken
FairSpec == Spec /\ WF_allVars(Next)

(* What the history says about an attempt *)

\* attempt a has come back to the __main__ loop
Finished(a) == a < attempt \/ (a = attempt /\ pc \in {"classify", "loop", "done"})

\* the index GET of attempt a raised
IndexFailed(a) == \E i \in RequestsOf(a, "GET index") : ~log[a][i].ok

\* the index page of attempt a holds no Token input
NoToken(a) ==
    \E i \in RequestsOf(a, "GET index") :
        log[a][i].ok /\ ~log[a][i].page.hasToken

\* the index page of attempt a holds a Token input and no CAPTCHA path
NoCaptchaPath(a) ==
    \E i \in RequestsOf(a, "GET index") :
        log[a][i].ok /\ log[a][i].page.hasToken /\ ~log[a][i].page.hasCaptcha

\* the CAPTCHA GET of attempt a raised
CaptchaGetFailed(a) == \E i \in RequestsOf(a, "GET captcha") : ~log[a][i].ok

\* the CAPTCHA bytes of attempt a are no image
Undecodable(a) ==
    \E i \in RequestsOf(a, "GET captcha") :
        log[a][i].ok /\ ~log[a][i].decodable

\* the POST of attempt a raised
PostFailed(a) == \E i \in RequestsOf(a, "POST") : ~log[a][i].ok

\* the server answered the POST of attempt a with the invalid-captcha marker
AnsweredInvalid(a) ==
    \E i \in RequestsOf(a, "POST") : log[a][i].ok /\ log[a][i].body.marker

\* the server answered the POST of attempt a without the marker
AnsweredOther(a) ==
    \E i \in RequestsOf(a, "POST") : log[a][i].ok /\ ~log[a][i].body.marker

\* result is the response body of the POST of attempt a
ResultIsBodyOf(a) ==
    \E i \in RequestsOf(a, "POST") : log[a][i].ok /\ result = log[a][i].body

\* the number of requests of one kind made so far
Count(kind) == Cardinality(Requests(kind))

-----------------------------------------------------------------------------
\* C1: for k in 1..MAX_RETRY, when attempts 1..k-1 were answered with the
\* invalid-captcha marker and attempt k without it, the loop has made exactly
\* k index GETs and k POSTs, starts no attempt k+1, and result is the body of
\* attempt k's response.
C1_FirstAcceptedBodyIsResult ==
    \A k \in 1..attempt :
        ((\A j \in 1..(k - 1) : AnsweredInvalid(j)) /\ AnsweredOther(k)) =>
            /\ attempt = k
            /\ pc \in {"classify", "done"}
            /\ Count("GET index") = k
            /\ Count("POST") = k
            /\ \A a \in 1..k : Cardinality(RequestsOf(a, "GET index")) = 1
                            /\ Cardinality(RequestsOf(a, "POST")) = 1
            /\ ResultIsBodyOf(k)
            /\ ~result.marker

\* two rejected attempts, then an accepted third one, and the loop is over
C1_Witness ==
    /\ pc = "done"
    /\ attempt = 3
    /\ AnsweredInvalid(1) /\ AnsweredInvalid(2) /\ AnsweredOther(3)
    /\ ResultIsBodyOf(3)

\* the attempts made never exceed the budget, and an attempt is followed by
\* another one only if it was answered with the invalid-captcha marker
BoundedAndStopsAtFirstOther ==
    /\ attempt <= MAX_RETRY
    /\ Count("GET index") <= MAX_RETRY
    /\ \A a \in 1..attempt : a < attempt => AnsweredInvalid(a)
    /\ (pc = "loop" /\ attempt >= 1) => AnsweredInvalid(attempt)

\* C2: whatever the outcomes of the attempts, the retry loop terminates, never
\* starts more than MAX_RETRY attempts, and starts no attempt after the first
\* one whose outcome is not invalid-captcha.
C2_TerminatesWithinBudget ==
    /\ <>(pc = "done")
    /\ []BoundedAndStopsAtFirstOther

\* the loop is over after a transport error in the second attempt
C2_Witness ==
    /\ pc = "done"
    /\ attempt = 2
    /\ AnsweredInvalid(1)
    /\ PostFailed(2)

\* every one of the MAX_RETRY attempts was answered with the marker
AllRejected ==
    /\ attempt >= MAX_RETRY
    /\ \A a \in 1..MAX_RETRY : AnsweredInvalid(a)

\* C3 (as stated): when all MAX_RETRY attempts are answered with the marker,
\* the loop stops after MAX_RETRY attempts and result is a retries-exhausted
\* failure, not a response body.
C3_RetriesExhaustedValue ==
    (pc = "done" /\ AllRejected) =>
        /\ attempt = MAX_RETRY
        /\ result.text = "retries-exhausted"
        /\ result.text # "r.text"

\* C3 (amended): when all MAX_RETRY attempts are answered with the marker, the
\* loop stops after exactly MAX_RETRY attempts (MAX_RETRY index GETs and
\* POSTs), and result is the response body of the last attempt, which holds
\* the marker; no other value is produced.
C3_ExhaustedReturnsLastBody ==
    AllRejected =>
        /\ attempt = MAX_RETRY
        /\ pc \in {"classify", "loop", "done"}
        /\ Count("GET index") = MAX_RETRY
        /\ Count("POST") = MAX_RETRY
        /\ ResultIsBodyOf(MAX_RETRY)
        /\ result.marker
        /\ result.py = "str"

\* the budget is used up and the loop is over
C3_Witness == pc = "done" /\ AllRejected /\ attempt = MAX_RETRY

\* C4: an attempt whose index page holds no token input ends with
\* "TOKEN NOT FOUND" without a CAPTCHA GET or a POST, and no other attempt
\* follows it.
C4_TokenNotFoundIsFinal ==
    \A a \in 1..attempt :
        NoToken(a) =>
            /\ attempt = a
            /\ RequestsOf(a, "GET captcha") = {}
            /\ RequestsOf(a, "POST") = {}
            /\ pc \in {"extract", "classify", "done"}
            /\ pc # "extract" => result = TokenNotFound

\* the second attempt found no token and the loop is over
C4_Witness ==
    /\ pc = "done"
    /\ attempt = 2
    /\ NoToken(2)
    /\ result = TokenNotFound

\* C5 (as stated): when the CAPTCHA bytes of an attempt are no image, the
\* attempt does not abort: a POST is still made, with the empty captcha text.
C5_DecodeFailureStillPosts ==
    \A a \in 1..attempt :
        (Undecodable(a) /\ Finished(a)) =>
            /\ \E i \in RequestsOf(a, "POST") :
                   log[a][i].data.captchacode.txt = ""
            /\ a = attempt => result.py = "str"

\* C5 (amended): when the CAPTCHA bytes of an attempt are no image, the
\* attempt aborts: run() returns the error dict of its except clause, no POST
\* is made in that attempt, and no other attempt follows.
C5_DecodeFailureAborts ==
    \A a \in 1..attempt :
        Undecodable(a) =>
            /\ attempt = a
            /\ RequestsOf(a, "POST") = {}
            /\ pc \in {"ocr", "classify", "done"}
            /\ pc # "ocr" => result = ErrorDict("Image.open", FALSE)

\* a rejected first attempt, then bytes that are no image: the loop is over
C5_Witness ==
    /\ pc = "done"
    /\ attempt = 2
    /\ AnsweredInvalid(1)
    /\ Undecodable(2)
    /\ result.py = "dict"

\* C6: a transport error on the index GET or on the POST ends the loop at
\* once with the error dict as result, whatever its message: the failed
\* request is the last request made, the attempt is never taken for an
\* invalid captcha, and no other attempt follows.
C6_TransportErrorIsFinal ==
    \A a \in 1..attempt :
        (IndexFailed(a) \/ PostFailed(a)) =>
            /\ attempt = a
            /\ pc \in {"classify", "done"}
            /\ result.py = "dict"
            /\ result.text \in {"session.get(index_url)", "requests.post"}
            /\ ~log[a][Len(log[a])].ok
            /\ IndexFailed(a) =>
                   /\ RequestsOf(a, "GET captcha") = {}
                   /\ RequestsOf(a, "POST") = {}
                   /\ result.text = "session.get(index_url)"

\* the index GET of the second attempt raised with a message that holds the
\* marker text, and the loop is over
C6_Witness ==
    /\ pc = "done"
    /\ attempt = 2
    /\ IndexFailed(2)
    /\ result.marker

\* C7 (as stated): an attempt whose index page holds a token and no CAPTCHA
\* path is an extraction failure: no POST is made for it and no attempt
\* follows it.
C7_NoCaptchaPathIsFailure ==
    \A a \in 1..attempt :
        (NoCaptchaPath(a) /\ Finished(a)) =>
            /\ RequestsOf(a, "POST") = {}
            /\ attempt = a

\* C7 (amended): an attempt whose index page holds a token and no CAPTCHA
\* path makes no CAPTCHA GET and goes on with the empty captcha text: its one
\* POST carries that empty text, and it is retried when the answer holds the
\* marker and the budget is not used up.
C7_NoCaptchaPathPostsEmptyText ==
    \A a \in 1..attempt :
        NoCaptchaPath(a) =>
            /\ RequestsOf(a, "GET captcha") = {}
            /\ Finished(a) =>
                   /\ Cardinality(RequestsOf(a, "POST")) = 1
                   /\ \A i \in RequestsOf(a, "POST") :
                          log[a][i].data.captchacode.txt = ""
            /\ (AnsweredInvalid(a) /\ a < MAX_RETRY /\ a = attempt) =>
                   pc \in {"classify", "loop"}

\* a first attempt without CAPTCHA path was rejected and retried
C7_Witness ==
    /\ attempt = 2
    /\ NoCaptchaPath(1)
    /\ AnsweredInvalid(1)

\* the ordinal, among the index fetches, of the index fetch of attempt a
FetchOf(a) == Cardinality(RequestsUpTo(a, "GET index"))

\* C8: every POST carries a token, cookies and a captcha text that all come
\* from the index fetch of the attempt the POST belongs to.
C8_PostUsesOneFetch ==
    \A a \in 1..attempt :
        \A i \in RequestsOf(a, "POST") :
            LET f == FetchOf(a)
            IN  /\ Cardinality(RequestsOf(a, "GET index")) = 1
                /\ log[a][i].cookies # None
                /\ log[a][i].data # None
                /\ log[a][i].cookies.fetch = f
                /\ log[a][i].data.Token.fetch = f
                /\ log[a][i].data.captchacode.fetch = f

\* the POST of a second attempt, made with a recognised captcha text
C8_Witness ==
    /\ attempt = 2
    /\ AnsweredInvalid(1)
    /\ \E i \in RequestsOf(2, "POST") :
           /\ log[2][i].data.captchacode.txt = "OCR"
           /\ log[2][i].cookies.fetch = 2

\* C9 (as stated): every attempt makes exactly one index GET, at most one
\* CAPTCHA GET and exactly one POST, the POST being skipped only when the
\* index fetch or the token extraction failed.
C9_PostSkippedOnlyOnIndexFailure ==
    \A a \in 1..attempt :
        Finished(a) =>
            /\ Cardinality(RequestsOf(a, "GET index")) = 1
            /\ Cardinality(RequestsOf(a, "GET captcha")) <= 1
            /\ Cardinality(RequestsOf(a, "POST")) =
                   IF IndexFailed(a) \/ NoToken(a) THEN 0 ELSE 1

\* C9 (amended): every attempt makes exactly one index GET, at most one
\* CAPTCHA GET and at most one POST; the POST is skipped exactly when the
\* index fetch or the token extraction failed or the CAPTCHA GET or the
\* decoding of its bytes raised.
C9_RequestsPerAttempt ==
    \A a \in 1..attempt :
        Finished(a) =>
            /\ Cardinality(RequestsOf(a, "GET index")) = 1
            /\ Cardinality(RequestsOf(a, "GET captcha")) <= 1
            /\ Cardinality(RequestsOf(a, "POST")) =
                   IF \/ IndexFailed(a) \/ NoToken(a)
                      \/ CaptchaGetFailed(a) \/ Undecodable(a)
                   THEN 0 ELSE 1

\* an attempt whose CAPTCHA GET raised has come back without a POST
C9_Witness ==
    /\ pc = "done"
    /\ CaptchaGetFailed(attempt)
    /\ RequestsOf(attempt, "POST") = {}
    /\ Cardinality(RequestsOf(attempt, "GET captcha")) = 1

\* C10: whenever run() has returned, self.cookies and self.result_payload are
\* both unset, or both set with cookies, token and captcha text of one and
\* the same index fetch.
C10_StoredStateIsWhole ==
    pc \in {"classify", "loop", "done"} =>
        \/ self_cookies = None /\ self_result_payload = None
        \/ /\ self_cookies # None
           /\ self_result_payload # None
           /\ self_cookies.fetch = self_result_payload.Token.fetch
           /\ self_cookies.fetch = self_result_payload.captchacode.fetch
           /\ self_cookies.fetch \in 1..attempt

\* the second attempt found no token and run() has returned: the stored
\* state is still that of the first attempt
C10_Witness ==
    /\ pc = "classify"
    /\ attempt = 2
    /\ NoToken(2)
    /\ self_cookies # None
    /\ self_cookies.fetch = 1
    /\ self_result_payload.Token.fetch = 1

-----------------------------------------------------------------------------
(***************************************************************************)
(* clean_captcha (services/Gray.py).  An image is a grid: a sequence of    *)
(* rows, each a sequence of pixels.  The steps of the function are taken   *)
(* one at a time.                                                          *)
(***************************************************************************)

\* the largest number of pixels of an input image
MaxArea == 6

\* the largest side of a mask handed to the majority filter on its own
MaxSide == 3

\* the RGB pixels an input image is made of: black, red, light grey
Colours == {<<0, 0, 0>>, <<255, 0, 0>>, <<228, 228, 228>>}

\* h, w = shape
Height(g) == Len(g)
Width(g) == Len(g[1])

\* the h x w grid whose pixel (i, j) is F(i, j)
Grid(h, w, F(_, _)) == [i \in 1..h |-> [j \in 1..w |-> F(i, j)]]

\* the positions of a grid
Positions(g) == (1..Height(g)) \X (1..Width(g))

\* the shapes and the input images looked at
Shapes == {hw \in (1..MaxArea) \X (1..MaxArea) : hw[1] * hw[2] <= MaxArea}
Images == UNION {[1..hw[1] -> [1..hw[2] -> Colours]] : hw \in Shapes}

\* the masks handed to the majority filter on its own
Masks == UNION {[1..h -> [1..w -> {0, 1}]] : h \in 1..MaxSide, w \in 1..MaxSide}

\* ImageOps.grayscale(img): convert("L"), the ITU-R 601-2 luma in 16-bit
\* fixed point
Luma(c) == (c[1] * 19595 + c[2] * 38470 + c[3] * 7471 + 32768) \div 65536
Grayscale(im) ==
    Grid(Height(im), Width(im), LAMBDA i, j : Luma(im[i][j]))

\* the index k kept inside 1..n: the image is expanded by repeating its edge
Clamp(k, n) == IF k < 1 THEN 1 ELSE IF k > n THEN n ELSE k

\* the 3x3 neighbourhood of (i, j) in the expanded image, as 9 values
Window(g, i, j) ==
    [d \in 1..9 |-> g[Clamp(i + ((d - 1) \div 3) - 1, Height(g))]
                     [Clamp(j + ((d - 1) % 3) - 1, Width(g))]]

\* the value of rank r (from 0) among the values of s
Rank(s, r) ==
    CHOOSE v \in {s[k] : k \in DOMAIN s} :
        /\ Cardinality({k \in DOMAIN s : s[k] < v}) <= r
        /\ Cardinality({k \in DOMAIN s : s[k] <= v}) > r

\* gray.filter(ImageFilter.MedianFilter(size=3)): rank 3*3 // 2 of the window
MedianFilter(g) ==
    Grid(Height(g), Width(g), LAMBDA i, j : Rank(Window(g, i, j), 4))

RECURSIVE SumSeq(_)
\* the sum of a sequence of numbers
SumSeq(q) == IF q = <<>> THEN 0 ELSE Head(q) + SumSeq(Tail(q))

\* arr.sum(), arr.size, arr.min()
Total(a) == SumSeq([i \in 1..Height(a) |-> SumSeq(a[i])])
Size(a) == Height(a) * Width(a)
Min(a) ==
    CHOOSE v \in {a[p[1]][p[2]] : p \in Positions(a)} :
        \A p \in Positions(a) : v <= a[p[1]][p[2]]

\* fractions <<n, d>> with d > 0: the float arithmetic of the threshold.  A
\* pixel is an integer and the threshold a multiple of 1 / (2 * arr.size), so
\* the rounding of float64 does not change the outcome of the comparison.
Frac(n, d) == <<n, d>>
FracAdd(x, y) == <<x[1] * y[2] + y[1] * x[2], x[2] * y[2]>>
FracDiv(x, k) == <<x[1], x[2] * k>>

\* a comparison that lets the threshold itself through
IntLessEq(v, x) == v * x[2] <= x[1]

\* v < x for an integer v and a fraction x
IntLess(v, x) == v * x[2] < x[1]

\* arr.mean()
Mean(a) == Frac(Total(a), Size(a))

\* a threshold that forgets the mean
ThresholdMinOnly(a) == FracDiv(FracAdd(Frac(Min(a), 1), Frac(Min(a), 1)), 2)

\* threshold = (arr.mean() + arr.min()) / 2
Threshold(a) == FracDiv(FracAdd(Mean(a), Frac(Min(a), 1)), 2)

\* binary = (arr < threshold).astype(np.uint8) * 255
Binary(a) ==
    LET t == Threshold(a)
    IN  Grid(Height(a), Width(a),
             LAMBDA i, j : IF IntLess(a[i][j], t) THEN 255 ELSE 0)

\* mask = (binary == 255).astype(np.uint8)
Mask(b) ==
    Grid(Height(b), Width(b), LAMBDA i, j : IF b[i][j] = 255 THEN 1 ELSE 0)

\* a padding with foreground instead of background
PadOnes(m) ==
    Grid(Height(m) + 2, Width(m) + 2,
         LAMBDA i, j : IF i \in 2..(Height(m) + 1) /\ j \in 2..(Width(m) + 1)
                       THEN m[i - 1][j - 1] ELSE 1)

\* pad = np.pad(mask, 1, mode='constant', constant_values=0)
Pad(m) ==
    Grid(Height(m) + 2, Width(m) + 2,
         LAMBDA i, j : IF i \in 2..(Height(m) + 1) /\ j \in 2..(Width(m) + 1)
                       THEN m[i - 1][j - 1] ELSE 0)

\* window = pad[i:i+3, j:j+3]; window.sum(), for the pixel (i, j) from 1
WindowSum(pad, i, j) ==
    SumSeq([d \in 1..9 |-> pad[i + ((d - 1) \div 3)][j + ((d - 1) % 3)]])

\* a vote that 4 of 9 win
IsMajorityOfEight(n) == n >= 4

\* window.sum() >= 5
IsMajority(n) == n >= 5

\* out_mask[i, j] = 1 if window.sum() >= 5 else 0, for i in range(h),
\* j in range(w)
Majority(m) ==
    LET pad == Pad(m)
    IN  Grid(Height(m), Width(m),
             LAMBDA i, j : IF IsMajority(WindowSum(pad, i, j)) THEN 1 ELSE 0)

\* a rendering that leaves the 0 / 1 of the mask in the image
RenderUnscaled(om) ==
    Grid(Height(om), Width(om), LAMBDA i, j : IF om[i][j] = 1 THEN 0 ELSE 1)

\* result_arr = np.where(out_mask == 1, 0, 255).astype(np.uint8)
Render(om) ==
    Grid(Height(om), Width(om), LAMBDA i, j : IF om[i][j] = 1 THEN 0 ELSE 255)

\* the __main__ loop is not being looked at
RetryIdle ==
    /\ attempt = 0
    /\ result = EmptyStr
    /\ pc = "idle"
    /\ self_cookies = None
    /\ self_result_payload = None
    /\ session = None
    /\ html = None
    /\ token_value = None
    /\ captcha_text = None
    /\ raw_img = None
    /\ log = <<>>

\* a step of clean_captcha leaves the rest alone
CleanOnly == UNCHANGED <<vars, ocrVars, thr>>

\* gray = ImageOps.grayscale(img)
GrayscaleStep ==
    /\ cpc = "grayscale"
    /\ gray' = Grayscale(img)
    /\ cpc' = "median"
    /\ UNCHANGED <<img, arr, mask, out_mask, result_arr>>
    /\ CleanOnly

\* gray = gray.filter(ImageFilter.MedianFilter(size=3))
MedianStep ==
    /\ cpc = "median"
    /\ gray' = MedianFilter(gray)
    /\ cpc' = "threshold"
    /\ UNCHANGED <<img, arr, mask, out_mask, result_arr>>
    /\ CleanOnly

\* arr = np.array(gray).astype(np.uint8); threshold = ...; binary = ...;
\* mask = ...
ThresholdStep ==
    /\ cpc = "threshold"
    /\ arr' = gray
    /\ mask' = Mask(Binary(gray))
    /\ cpc' = "majority"
    /\ UNCHANGED <<img, gray, out_mask, result_arr>>
    /\ CleanOnly

\* pad = ...; out_mask = np.zeros_like(mask); the two for loops
MajorityStep ==
    /\ cpc = "majority"
    /\ out_mask' = Majority(mask)
    /\ cpc' = "render"
    /\ UNCHANGED <<img, gray, arr, mask, result_arr>>
    /\ CleanOnly

\* result_arr = ...; return Image.fromarray(result_arr)
RenderStep ==
    /\ cpc = "render"
    /\ result_arr' = Render(out_mask)
    /\ cpc' = "done"
    /\ UNCHANGED <<img, gray, arr, mask, out_mask>>
    /\ CleanOnly

\* clean_captcha(img) is called with some image
CleanInit ==
    /\ RetryIdle
    /\ OcrIdle
    /\ thr = <<>>
    /\ img \in Images
    /\ gray = None
    /\ arr = None
    /\ mask = None
    /\ out_mask = None
    /\ result_arr = None
    /\ cpc = "grayscale"

CleanNext ==
    \/ GrayscaleStep
    \/ MedianStep
    \/ ThresholdStep
    \/ MajorityStep
    \/ RenderStep

CleanSpec == CleanInit /\ [][CleanNext]_allVars

\* the majority filter is handed some mask
MaskInit ==
    /\ RetryIdle
    /\ OcrIdle
    /\ thr = <<>>
    /\ img = None
    /\ gray = None
    /\ arr = None
    /\ mask \in Masks
    /\ out_mask = None
    /\ result_arr = None
    /\ cpc = "majority"

MaskNext ==
    \/ MajorityStep
    \/ RenderStep

MaskSpec == MaskInit /\ [][MaskNext]_allVars

-----------------------------------------------------------------------------
\* the foreground cells among the 9 cells around (i, j) of a mask ringed with
\* background: the cells off the mask count as background
NeighbourCount(m, i, j) ==
    Cardinality({d \in (0..2) \X (0..2) :
                    /\ (i + d[1]) - 1 \in 1..Height(m)
                    /\ (j + d[2]) - 1 \in 1..Width(m)
                    /\ m[(i + d[1]) - 1][(j + d[2]) - 1] = 1})

\* C11: after the majority vote, a pixel of the output mask is foreground if
\* and only if at least 5 of the 9 cells of its 3x3 neighbourhood in the mask
\* ringed with background are foreground; so a lone foreground pixel with 8
\* background neighbours becomes background and the centre of a solid 3x3
\* block stays foreground.
C11_MajorityOfNine ==
    cpc \in {"render", "done"} =>
        /\ Height(out_mask) = Height(mask)
        /\ Width(out_mask) = Width(mask)
        /\ \A p \in Positions(mask) :
               LET n == NeighbourCount(mask, p[1], p[2])
                   o == out_mask[p[1]][p[2]]
               IN  /\ o \in {0, 1}
                   /\ o = 1 <=> n >= 5
                   /\ (mask[p[1]][p[2]] = 1 /\ n = 1) => o = 0
                   /\ n = 9 => o = 1

\* a solid 3x3 block has gone through the vote: its centre is foreground and
\* its corners are not
C11_Witness ==
    /\ cpc = "done"
    /\ mask = <<<<1, 1, 1>>, <<1, 1, 1>>, <<1, 1, 1>>>>
    /\ out_mask[2][2] = 1
    /\ out_mask[1][1] = 0

\* C12: the output of clean_captcha has the height and the width of its
\* input, and each of its pixels is 0 or 255.
C12_SameShapeTwoValues ==
    cpc = "done" =>
        /\ Height(result_arr) = Height(img)
        /\ \A i \in 1..Height(img) : Len(result_arr[i]) = Len(img[i])
        /\ \A p \in Positions(result_arr) :
               result_arr[p[1]][p[2]] \in {0, 255}

\* a 2x3 image has been cleaned to an image with black and white pixels
C12_Witness ==
    /\ cpc = "done"
    /\ Height(img) = 2 /\ Width(img) = 3
    /\ \E p \in Positions(result_arr) : result_arr[p[1]][p[2]] = 0
    /\ \E p \in Positions(result_arr) : result_arr[p[1]][p[2]] = 255

\* C14: the mask is cut with one threshold (mean + min) / 2 taken over all
\* the pixels of the smoothed image: with N pixels of sum S and minimum m, a
\* pixel of value v is foreground if and only if 2 * N * v < S + N * m, and a
\* pixel whose value is the threshold is background.
C14_StrictGlobalThreshold ==
    cpc \in {"majority", "render", "done"} =>
        LET N == Size(arr)
            S == SumSeq([k \in 1..N |->
                     arr[((k - 1) \div Width(arr)) + 1]
                        [((k - 1) % Width(arr)) + 1]])
            V == {arr[p[1]][p[2]] : p \in Positions(arr)}
            m == CHOOSE v \in V : \A u \in V : u >= v
        IN  \A p \in Positions(arr) :
                LET v == arr[p[1]][p[2]]
                IN  /\ mask[p[1]][p[2]] = 1 <=> 2 * N * v < S + N * m
                    /\ mask[p[1]][p[2]] = 0 <=> 2 * N * v >= S + N * m

\* a smoothed image that is not uniform holds a pixel whose value is the
\* threshold, and that pixel is background while a darker one is foreground
C14_Witness ==
    /\ cpc = "majority"
    /\ arr = <<<<0, 76, 228, 228, 228>>>>
    /\ mask = <<<<1, 0, 0, 0, 0>>>>

\* the four corners of a grid
Corners(g) == {1, Height(g)} \X {1, Width(g)}

\* C16: each of the four corner pixels of the output of clean_captcha is 255;
\* so an image of height 1, of width 1, or of 2x2 pixels is cleaned to an
\* all-white image.
C16_CornersAreWhite ==
    cpc = "done" =>
        /\ \A p \in Corners(result_arr) : result_arr[p[1]][p[2]] = 255
        /\ (\/ Height(img) = 1
            \/ Width(img) = 1
            \/ (Height(img) = 2 /\ Width(img) = 2)) =>
               \A p \in Positions(result_arr) : result_arr[p[1]][p[2]] = 255

\* a 2x2 image whose mask holds foreground has been cleaned to all white
C16_Witness ==
    /\ cpc = "done"
    /\ Height(img) = 2 /\ Width(img) = 2
    /\ \E p \in Positions(mask) : mask[p[1]][p[2]] = 1
    /\ \A p \in Positions(result_arr) : result_arr[p[1]][p[2]] = 255

\* all the pixels of a grid have one value
Uniform(g) == \A p, q \in Positions(g) : g[p[1]][p[2]] = g[q[1]][q[2]]

\* C17: when all the pixels of the smoothed image have one value, no pixel
\* of the mask is foreground and the output is all 255; when they do not,
\* each pixel that holds the minimum is foreground in the mask.
C17_UniformAndMinimum ==
    cpc \in {"majority", "render", "done"} =>
        /\ Uniform(arr) =>
               /\ \A p \in Positions(mask) : mask[p[1]][p[2]] = 0
               /\ cpc = "done" =>
                      \A p \in Positions(result_arr) :
                          result_arr[p[1]][p[2]] = 255
        /\ ~Uniform(arr) =>
               \A p \in Positions(arr) :
                   (\A q \in Positions(arr) :
                        arr[p[1]][p[2]] <= arr[q[1]][q[2]]) =>
                       mask[p[1]][p[2]] = 1

\* a smoothed image with two values has been cut: its darkest pixels are
\* foreground
C17_Witness ==
    /\ cpc = "done"
    /\ ~Uniform(arr)
    /\ \E p \in Positions(arr) : arr[p[1]][p[2]] = 0 /\ mask[p[1]][p[2]] = 1
    /\ \E p \in Positions(arr) : arr[p[1]][p[2]] = 228

-----------------------------------------------------------------------------
(***************************************************************************)
(* The text handling of run_ocr (services/TrOCR.py), of its caller in      *)
(* VTUScraper.run and of the batch tool (services/trocr_mp.py).  A string  *)
(* is a sequence of characters.                                            *)
(***************************************************************************)

\* the longest output of the model looked at
MaxLen == 3

\* the characters the model puts out: a letter, a period, two kinds of
\* whitespace, and symbols inside and outside SYMBOL_MAP
Chars == {"A", ".", " ", "\t", "@", "?", "-"}

\* the characters str.split() and str.strip() take for whitespace
Whitespace == {" ", "\t", "\n", "\r", "\f"}

\* "AB3.C D"
Example == <<"A", "B", "3", ".", "C", " ", "D">>

\* the outputs of the model looked at
Texts == UNION {[1..n -> Chars] : n \in 0..MaxLen} \cup {Example}

\* s without the characters of the set drop
RECURSIVE Without(_, _)
Without(s, drop) ==
    IF s = <<>> THEN <<>>
    ELSE IF Head(s) \in drop THEN Without(Tail(s), drop)
    ELSE <<Head(s)>> \o Without(Tail(s), drop)

\* s.replace(".", "")
RemovePeriods(s) == Without(s, {"."})

\* s.split(): the maximal runs of non-whitespace characters of s
RECURSIVE Split(_)
Split(s) ==
    IF s = <<>> THEN <<>>
    ELSE IF Head(s) \in Whitespace THEN Split(Tail(s))
    ELSE LET n == CHOOSE k \in 1..Len(s) :
                      /\ \A i \in 1..k : s[i] \notin Whitespace
                      /\ k = Len(s) \/ s[k + 1] \in Whitespace
         IN  <<SubSeq(s, 1, n)>> \o Split(SubSeq(s, n + 1, Len(s)))

\* "".join(words)
RECURSIVE Join(_)
Join(words) ==
    IF words = <<>> THEN <<>> ELSE Head(words) \o Join(Tail(words))

\* s.strip()
RECURSIVE LStrip(_)
LStrip(s) ==
    IF s # <<>> /\ Head(s) \in Whitespace THEN LStrip(Tail(s)) ELSE s
RECURSIVE RStrip(_)
RStrip(s) ==
    IF s # <<>> /\ s[Len(s)] \in Whitespace
    THEN RStrip(SubSeq(s, 1, Len(s) - 1)) ELSE s
Strip(s) == LStrip(RStrip(s))

\* SYMBOL_MAP of process_file: a character, or the empty string
SymbolMapped == {"£", "@", "$", "!", "|", "§", "€", "¥", "¢",
                 "?", "*", "#", ",", ".", ":", "'"}
SYMBOL_MAP(c) ==
    CASE c = "£" -> <<"F">>
      [] c = "@" -> <<"A">>
      [] c = "$" -> <<"S">>
      [] c = "!" -> <<"I">>
      [] c = "|" -> <<"I">>
      [] c = "§" -> <<"S">>
      [] c = "€" -> <<"E">>
      [] c = "¥" -> <<"Y">>
      [] c = "¢" -> <<"C">>
      [] c \in {"?", "*", "#", ",", ".", ":", "'"} -> <<>>

\* s.translate(SYMBOL_MAP): a character outside the map stays
RECURSIVE Translate(_)
Translate(s) ==
    IF s = <<>> THEN <<>>
    ELSE (IF Head(s) \in SymbolMapped THEN SYMBOL_MAP(Head(s))
          ELSE <<Head(s)>>) \o Translate(Tail(s))

\* a step of the text handling leaves the rest alone
retryRest == <<attempt, result, pc, self_cookies, self_result_payload,
               session, html, token_value, raw_img, log>>
TextOnly == UNCHANGED <<retryRest, cleanVars, thr>>

\* TrOCR.run_ocr: ctext = text.replace(".", ""); cap_text = "".join(ctext.split())
RunOcr ==
    /\ opc = "decoded"
    /\ cap_text' = Join(Split(RemovePeriods(text)))
    /\ opc' = "returned"
    /\ UNCHANGED <<text, ocr_raw, ocr_clean, captcha_text>>
    /\ TextOnly

\* VTUScraper.run: captcha_text = run_ocr(img).strip()
StripStep ==
    /\ opc = "returned"
    /\ captcha_text' = Strip(cap_text)
    /\ opc' = "done"
    /\ UNCHANGED <<text, cap_text, ocr_raw, ocr_clean>>
    /\ TextOnly

\* TrOCRRunner.run_ocr, called by process_file: ocr_raw = self.run_ocr(img)
RunnerRunOcr ==
    /\ opc = "decoded"
    /\ ocr_raw' = Join(Split(RemovePeriods(text)))
    /\ opc' = "batch"
    /\ UNCHANGED <<text, cap_text, ocr_clean, captcha_text>>
    /\ TextOnly

\* process_file: ocr_clean = "".join(ocr_raw.split()).translate(SYMBOL_MAP)
ProcessFile ==
    /\ opc = "batch"
    /\ ocr_clean' = Translate(Join(Split(ocr_raw)))
    /\ opc' = "row"
    /\ UNCHANGED <<text, cap_text, ocr_raw, captcha_text>>
    /\ TextOnly

\* the model has decoded some text
TextInit ==
    /\ RetryIdle
    /\ CleanIdle
    /\ thr = <<>>
    /\ text \in Texts
    /\ cap_text = None
    /\ ocr_raw = None
    /\ ocr_clean = None
    /\ opc = "decoded"

TextNext ==
    \/ RunOcr
    \/ StripStep
    \/ RunnerRunOcr
    \/ ProcessFile

TextSpec == TextInit /\ [][TextNext]_allVars

-----------------------------------------------------------------------------
\* C13: the captcha text handed to the submission is the output of the model
\* without its periods and its whitespace and with the symbols of the remap
\* rewritten: "AB3.C D" gives "AB3CD", and an output with '@' gives a text
\* with 'A' in its place.
C13_SubmittedTextIsRemapped ==
    opc = "done" =>
        /\ captcha_text = Translate(Without(text, Whitespace \cup {"."}))
        /\ text = Example => captcha_text = <<"A", "B", "3", "C", "D">>
        /\ \A i \in 1..Len(captcha_text) : captcha_text[i] # "@"

-----------------------------------------------------------------------------
(***************************************************************************)
(* Calls of VTUScraper.run on one VTUScraper object from several threads.  *)
(* thr[t] holds the locals of call t; self.cookies and self.result_payload *)
(* are the fields of the one object.  The interpreter can switch threads   *)
(* between any two attribute reads or writes.                              *)
(***************************************************************************)

\* how many calls run at once
NCalls == 2

Calls == 1..NCalls

\* run(lns): the lookup id of call t
Lns(t) == [usn |-> t]

\* the locals of a call that has not begun
Fresh ==
    [pc |-> "get_index", session |-> None, html |-> None,
     token_value |-> None, captcha_text |-> None, cookies |-> None,
     data |-> None, sent |-> None, ret |-> None]

\* a step of the calls leaves the rest alone
ConcOnly ==
    UNCHANGED <<attempt, result, pc, session, html, token_value,
                captcha_text, raw_img, log, cleanVars, ocrVars>>

\* the fields of the object stay as they are
SelfUnchanged == UNCHANGED <<self_cookies, self_result_payload>>

\* call t moves on with its locals changed to l
Local(t, l) == thr' = [thr EXCEPT ![t] = l]

\* return v in call t
CallReturn(t, v) == Local(t, [thr[t] EXCEPT !.pc = "returned", !.ret = v])

\* session = requests.Session(); r = session.get(self.index_url, ...)
CallGetIndex(t) ==
    /\ thr[t].pc = "get_index"
    /\ \/ \E page \in Pages :
            Local(t, [thr[t] EXCEPT
                         !.pc = "extract",
                         !.html = [hasToken |-> page.hasToken,
                                   hasCaptcha |-> page.hasCaptcha,
                                   fetch |-> t],
                         !.session = [fetch |-> t, jar |-> {"index"}]])
       \/ \E m \in BOOLEAN :
            CallReturn(t, ErrorDict("session.get(index_url)", m))
    /\ SelfUnchanged
    /\ ConcOnly

\* token_tag = soup.find(...); return "TOKEN NOT FOUND" without one
CallExtractToken(t) ==
    /\ thr[t].pc = "extract"
    /\ IF thr[t].html.hasToken
       THEN Local(t, [thr[t] EXCEPT !.pc = "find_captcha",
                                    !.token_value = [fetch |-> t]])
       ELSE CallReturn(t, TokenNotFound)
    /\ SelfUnchanged
    /\ ConcOnly

\* captcha_text = ""; with a captcha path: the image GET and
\* captcha_text = run_ocr(img).strip()
CallFindCaptcha(t) ==
    /\ thr[t].pc = "find_captcha"
    /\ IF thr[t].html.hasCaptcha
       THEN \/ \E x \in OcrTexts :
                 Local(t, [thr[t] EXCEPT
                              !.pc = "store_cookies",
                              !.session.jar = @ \cup {"captcha"},
                              !.captcha_text = [fetch |-> t, txt |-> x]])
            \/ \E m \in BOOLEAN :
                 CallReturn(t, ErrorDict("session.get(captcha_url)", m))
            \/ CallReturn(t, ErrorDict("Image.open", FALSE))
       ELSE Local(t, [thr[t] EXCEPT
                         !.pc = "store_cookies",
                         !.captcha_text = [fetch |-> t, txt |-> ""]])
    /\ SelfUnchanged
    /\ ConcOnly

\* self.cookies = session.cookies.get_dict()
CallStoreCookies(t) ==
    /\ thr[t].pc = "store_cookies"
    /\ self_cookies' = [fetch |-> thr[t].session.fetch,
                        jar |-> thr[t].session.jar]
    /\ Local(t, [thr[t] EXCEPT !.pc = "store_payload"])
    /\ UNCHANGED self_result_payload
    /\ ConcOnly

\* self.result_payload = {"Token": token_value, "lns": lns,
\*                        "captchacode": captcha_text}
CallStorePayload(t) ==
    /\ thr[t].pc = "store_payload"
    /\ self_result_payload' = [Token |-> thr[t].token_value, lns |-> Lns(t),
                               captchacode |-> thr[t].captcha_text]
    /\ Local(t, [thr[t] EXCEPT !.pc = "read_cookies"])
    /\ UNCHANGED self_cookies
    /\ ConcOnly

\* requests.post(..., cookies=self.cookies, ...): the argument is read
CallReadCookies(t) ==
    /\ thr[t].pc = "read_cookies"
    /\ Local(t, [thr[t] EXCEPT !.pc = "read_payload",
                               !.cookies = self_cookies])
    /\ SelfUnchanged
    /\ ConcOnly

\* requests.post(..., data=self.result_payload, ...): the argument is read
CallReadPayload(t) ==
    /\ thr[t].pc = "read_payload"
    /\ Local(t, [thr[t] EXCEPT !.pc = "post",
                               !.data = self_result_payload])
    /\ SelfUnchanged
    /\ ConcOnly

\* r = requests.post(...); full = r.text; return full
CallPost(t) ==
    /\ thr[t].pc = "post"
    /\ \E v \in {ResponseText(b, m) : b \in 1..NBodies, m \in BOOLEAN}
             \cup {ErrorDict("requests.post", m) : m \in BOOLEAN} :
         Local(t, [thr[t] EXCEPT
                      !.pc = "returned",
                      !.sent = [cookies |-> thr[t].cookies,
                                data |-> thr[t].data],
                      !.ret = v])
    /\ SelfUnchanged
    /\ ConcOnly

\* the object is new and every call is about to begin
ConcInit ==
    /\ RetryIdle
    /\ CleanIdle
    /\ OcrIdle
    /\ thr = [t \in Calls |-> Fresh]

ConcNext ==
    \E t \in Calls :
        \/ CallGetIndex(t)
        \/ CallExtractToken(t)
        \/ CallFindCaptcha(t)
        \/ CallStoreCookies(t)
        \/ CallStorePayload(t)
        \/ CallReadCookies(t)
        \/ CallReadPayload(t)
        \/ CallPost(t)

ConcSpec == ConcInit /\ [][ConcNext]_allVars

\* C15: under every interleaving of two run() calls for different lookup ids
\* on one VTUScraper object, the POST of each call carries the cookies and
\* the payload (token, lookup id, captcha text) that the same call built.
C15_PostCarriesOwnState ==
    \A t \in Calls :
        thr[t].sent # None =>
            /\ thr[t].sent.cookies = [fetch |-> thr[t].session.fetch,
                                      jar |-> thr[t].session.jar]
            /\ thr[t].sent.data = [Token |-> thr[t].token_value,
                                   lns |-> Lns(t),
                                   captchacode |-> thr[t].captcha_text]

=============================================================================
